---- MODULE Spec2Model ----
(***************************************************************************)
(* Prediction & Market-Sync controller of the PricePredictorPage component *)
(* (src/unnamed/part_000).  The React state cells are the variables; each  *)
(* event handler and each promise continuation is one action.  A state     *)
(* update followed by the effect it triggers (the useEffect on the four    *)
(* form fields) is one step, as React flushes both before the next event.  *)
(* Spec is the page mounted once (production build); SpecStrict is the     *)
(* development build, where React.StrictMode (src/src/index.tsx) runs the  *)
(* mount effects twice.                                                    *)
(***************************************************************************)
EXTENDS Integers, Sequences, FiniteSets, TLC

(***************************************************************************)
(* Bounds of the model.                                                    *)
(***************************************************************************)
\* market-insights requests issued in one run (the mount request included)
MaxMarketReq == 3
\* the user picks among the first MaxPick entries of each option list
MaxPick == 2
\* longest generated city label the City Normalizer is run on
MaxCityLen == 3

(***************************************************************************)
(* JavaScript values.  null / undefined is the empty tuple, a present      *)
(* value v is <<v>>.  A number is [nan, val].                              *)
(***************************************************************************)
Null == <<>>
Some(v) == <<v>>

NaN == [nan |-> TRUE, val |-> 0]
Num(n) == [nan |-> FALSE, val |-> n]

(***************************************************************************)
(* Text.  State holds strings; the functions that look inside a string     *)
(* (Number, the regular expressions) work on its characters.               *)
(***************************************************************************)
Chars(s) ==
  CASE s = "" -> <<>>
    [] s = "abc" -> <<"a","b","c">>
    [] s = "0" -> <<"0">>
    [] s = "49" -> <<"4","9">>
    [] s = "50" -> <<"5","0">>
    [] s = " 75 " -> <<" ","7","5"," ">>
    [] s = "-60" -> <<"-","6","0">>
    [] s = "1200" -> <<"1","2","0","0">>
    [] s = "1000000" -> <<"1","0","0","0","0","0","0">>
    [] s = "1000001" -> <<"1","0","0","0","0","0","1">>
    [] s = "Colombo 01" -> <<"C","o","l","o","m","b","o"," ","0","1">>
    [] s = "Colombo 03" -> <<"C","o","l","o","m","b","o"," ","0","3">>
    [] s = "Colombo 3" -> <<"C","o","l","o","m","b","o"," ","3">>
    [] s = "colombo 3" -> <<"c","o","l","o","m","b","o"," ","3">>
    [] s = "Colombo 7" -> <<"C","o","l","o","m","b","o"," ","7">>
    [] s = "Colombo 07" -> <<"C","o","l","o","m","b","o"," ","0","7">>
    [] s = "Dehiwala" -> <<"D","e","h","i","w","a","l","a">>
    [] s = "Galle" -> <<"G","a","l","l","e">>
    [] s = "Kandy" -> <<"K","a","n","d","y">>
    [] s = "Mount Lavinia" -> <<"M","o","u","n","t"," ","L","a","v","i","n","i","a">>
    [] s = "Negombo" -> <<"N","e","g","o","m","b","o">>
    [] s = "Nugegoda" -> <<"N","u","g","e","g","o","d","a">>
    [] s = "Building" -> <<"B","u","i","l","d","i","n","g">>
    [] s = "Commercial Property" -> <<"C","o","m","m","e","r","c","i","a","l"," ","P","r","o","p","e","r","t","y">>
    [] s = "Office Space" -> <<"O","f","f","i","c","e"," ","S","p","a","c","e">>
    [] s = "Shop" -> <<"S","h","o","p">>
    [] s = "Warehouse" -> <<"W","a","r","e","h","o","u","s","e">>
    [] s = "Rent" -> <<"R","e","n","t">>
    [] s = "Sale" -> <<"S","a","l","e">>
    [] s = "For Rent" -> <<"F","o","r"," ","R","e","n","t">>

UpperLetters == <<"A","B","C","D","E","F","G","H","I","J","K","L","M",
                  "N","O","P","Q","R","S","T","U","V","W","X","Y","Z">>
LowerLetters == <<"a","b","c","d","e","f","g","h","i","j","k","l","m",
                  "n","o","p","q","r","s","t","u","v","w","x","y","z">>
Digits == <<"0","1","2","3","4","5","6","7","8","9">>

toLowerCaseChar(c) ==
  IF \E i \in 1..26 : UpperLetters[i] = c
    THEN LowerLetters[CHOOSE i \in 1..26 : UpperLetters[i] = c]
    ELSE c
toLowerCase(cs) == [i \in 1..Len(cs) |-> toLowerCaseChar(cs[i])]

IsDigit(c) == \E i \in 1..10 : Digits[i] = c
DigitVal(c) == (CHOOSE i \in 1..10 : Digits[i] = c) - 1
IsSpace(c) == c = " "

RECURSIVE TrimStart(_)
TrimStart(cs) ==
  IF cs # <<>> /\ IsSpace(Head(cs)) THEN TrimStart(Tail(cs)) ELSE cs
RECURSIVE TrimEnd(_)
TrimEnd(cs) ==
  IF cs # <<>> /\ IsSpace(cs[Len(cs)])
    THEN TrimEnd(SubSeq(cs, 1, Len(cs) - 1)) ELSE cs
Trim(cs) == TrimEnd(TrimStart(cs))

RECURSIVE DecimalValue(_)
DecimalValue(cs) ==
  IF cs = <<>> THEN 0
  ELSE 10 * DecimalValue(SubSeq(cs, 1, Len(cs) - 1)) + DigitVal(cs[Len(cs)])

AllDigits(cs) == cs # <<>> /\ \A i \in 1..Len(cs) : IsDigit(cs[i])

\* Number(text): white space is trimmed, the empty text is 0, a signed run of
\* decimal digits is its value, any other text here is NaN.
Number(s) ==
  LET t == Trim(Chars(s)) IN
    IF t = <<>> THEN Num(0)
    ELSE IF AllDigits(t) THEN Num(DecimalValue(t))
    ELSE IF Head(t) = "-" /\ AllDigits(Tail(t)) THEN Num(0 - DecimalValue(Tail(t)))
    ELSE IF Head(t) = "+" /\ AllDigits(Tail(t)) THEN Num(DecimalValue(Tail(t)))
    ELSE NaN

isNaN(n) == n.nan
\* every comparison with NaN is false
NumLt(n, k) == ~n.nan /\ n.val < k
NumGt(n, k) == ~n.nan /\ n.val > k

\* a || b on strings: the empty string is falsy
StrOr(a, b) == IF a # "" THEN a ELSE b

Contains(cs, pat) ==
  \E i \in 1..(Len(cs) - Len(pat) + 1) : SubSeq(cs, i, i + Len(pat) - 1) = pat

\* /office/i.test(t)
TestOffice(t) == Contains(toLowerCase(Chars(t)), <<"o","f","f","i","c","e">>)
\* /rent/i.test(s)
TestRent(s) == Contains(toLowerCase(Chars(s)), <<"r","e","n","t">>)
\* /colombo\s*3$/i.test(l)
TestColombo3(l) ==
  LET cs == toLowerCase(Chars(l))
      n == Len(cs)
  IN n >= 8 /\ cs[n] = "3" /\
     \E i \in 1..(n - 7) :
        /\ SubSeq(cs, i, i + 6) = <<"c","o","l","o","m","b","o">>
        /\ \A k \in (i + 7)..(n - 1) : IsSpace(cs[k])

\* \w of a regular expression without the u flag
IsWordChar(c) ==
  \/ IsDigit(c)
  \/ \E i \in 1..26 : UpperLetters[i] = c \/ LowerLetters[i] = c
  \/ c = "_"

\* \b at the gap before cs[i] (i = Len(cs) + 1 is the end of the text)
WordBoundary(cs, i) ==
  (i > 1 /\ IsWordChar(cs[i - 1])) # (i <= Len(cs) /\ IsWordChar(cs[i]))

\* index of the last digit of the run of digits that starts at i
RECURSIVE DigitRunEnd(_, _)
DigitRunEnd(cs, i) ==
  IF i < Len(cs) /\ IsDigit(cs[i + 1]) THEN DigitRunEnd(cs, i + 1) ELSE i

\* $1 of 0+(\d+) matched on a whole run: 0+ is greedy but leaves one digit
RECURSIVE StripZeros(_)
StripZeros(run) ==
  IF Len(run) > 1 /\ Head(run) = "0" THEN StripZeros(Tail(run)) ELSE run

\* cs.replace(/\b0+(\d+)\b/g, '$1') from index i on, scanning left to right
RECURSIVE ReplaceZeroRuns(_, _)
ReplaceZeroRuns(cs, i) ==
  IF i > Len(cs) THEN <<>>
  ELSE LET e == DigitRunEnd(cs, i) IN
    IF cs[i] = "0" /\ WordBoundary(cs, i) /\ e > i /\ WordBoundary(cs, e + 1)
      THEN StripZeros(SubSeq(cs, i, e)) \o ReplaceZeroRuns(cs, e + 1)
      ELSE <<cs[i]>> \o ReplaceZeroRuns(cs, i + 1)

\* s.toLowerCase().replace(/\b0+(\d+)\b/g, '$1').trim()
normalizeCityLowerTrim(cs) == Trim(toLowerCase(cs))
normalizeCity(cs) == Trim(ReplaceZeroRuns(toLowerCase(cs), 1))

\* list.find(test) || list[0] || '', hits being the indices that pass the test
FirstMatchOrFirst(list, hits) ==
  LET found == IF hits = {} THEN ""
               ELSE list[CHOOSE i \in hits : \A j \in hits : i <= j]
  IN StrOr(found, StrOr(IF Len(list) > 0 THEN list[1] ELSE "", ""))


(***************************************************************************)
(* Program constants.                                                      *)
(***************************************************************************)
\* the built-in catalog of fetchOptions' catch branch
FallbackOptions ==
  [locations |-> <<"Colombo 01", "Colombo 03", "Colombo 07", "Dehiwala", "Galle",
                   "Kandy", "Mount Lavinia", "Negombo", "Nugegoda">>,
   property_types |-> <<"Building", "Commercial Property", "Office Space",
                        "Shop", "Warehouse">>,
   statuses |-> <<"Rent", "Sale">>]
FallbackLocation == "Colombo 03"
FallbackPropertyType == "Office Space"
FallbackStatus == "Rent"

MinSqft == 50
MaxSqft == 1000000

MsgSqftMissing == "Please enter the square footage."
MsgSqftTooSmall == "Square footage must be at least 50 sqft."
MsgSqftTooLarge == "Value is too large. Please enter a valid size."
MsgNoMarketData == "No market data found for this category."
MsgBackendError == "Backend returned an error. Make sure the backend server is running."
MsgBackendUnreachable == "Could not connect to the backend. Make sure it is running on port 8000."
MsgPredictFailed == "Failed to get prediction from the backend."
MsgUnexpected == "An unexpected error occurred."

(***************************************************************************)
(* What the user and the backend can supply.                               *)
(***************************************************************************)
\* texts typed into the Sqft field
SqftTexts == {"", "abc", "49", "50", " 75 ", "1000000", "1000001"}

\* bodies of a successful GET /form-options
BackendCatalogs ==
  { [locations |-> <<"Kandy", "Colombo 3">>,
     property_types |-> <<"Shop", "Office Space">>,
     statuses |-> <<"Sale", "For Rent">>],
    [locations |-> <<"Galle">>, property_types |-> <<"Shop">>, statuses |-> <<"Sale">>],
    [locations |-> <<>>, property_types |-> <<>>, statuses |-> <<>>] }

\* bodies of a successful GET /market-insights; the last one has no locations key
BackendMarketBodies ==
  { [status |-> "Rent", selected_city |-> "Colombo 03",
     locations |-> <<"Colombo 3", "Kandy">>, median_prices |-> <<100, 200>>,
     counts |-> <<10, 5>>],
    [status |-> "Sale", selected_city |-> "Kandy",
     locations |-> <<"Kandy">>, median_prices |-> <<300>>, counts |-> <<9>>],
    [status |-> "Rent", selected_city |-> "Galle",
     locations |-> <<>>, median_prices |-> <<>>, counts |-> <<>>],
    [status |-> "Rent", selected_city |-> "Galle"] }

\* bodies of a successful POST /predict
BackendPredictions ==
  { [predicted_price |-> 350000, shap_image_base64 |-> "iVBORw0KGgo",
     top_features |-> <<[feature |-> "Sqft", impact |-> 5]>>, base_value |-> 100],
    [predicted_price |-> 90000, shap_image_base64 |-> "",
     top_features |-> <<[feature |-> "Status_Rent", impact |-> -2]>>, base_value |-> 100] }

\* err.message of a rejected fetch / json()
RejectMessages == {"Failed to fetch", ""}

OptionOutcomes ==
  [kind : {"ok"}, data : BackendCatalogs]
    \cup {[kind |-> "http_error"], [kind |-> "network_error"]}
MarketOutcomes ==
  [kind : {"ok"}, data : BackendMarketBodies]
    \cup {[kind |-> "http_error"], [kind |-> "network_error"]}
PredictOutcomes ==
  [kind : {"ok"}, data : BackendPredictions]
    \cup {[kind |-> "http_error"]}
    \cup [kind : {"network_error"}, message : RejectMessages]

(***************************************************************************)
(* State.                                                                  *)
(***************************************************************************)
VARIABLES
  formData,            \* [Sqft, Location, PropertyType, Status]
  formOptions,         \* [locations, property_types, statuses]
  formOptionsLoading,
  loading,
  result,              \* Null or <<PredictionResponse>>
  error,               \* Null or <<message>>
  sqftError,           \* Null or <<message>>
  marketData,          \* Null or <<MarketInsights>>
  marketLoading,
  marketError,         \* Null or <<message>>
  shapImgError,
  optionsInFlight,     \* number of unresolved GET /form-options requests
  marketInFlight,      \* unresolved GET /market-insights: set of [id, params]
  marketIssued,        \* number of market-insights requests issued so far
  marketWriter,        \* id of the request whose completion ran last (0: none)
  predictInFlight,     \* unresolved POST /predict bodies, oldest first
  highlight            \* the labels the chart compares and what normalizeCity made
                       \* of them; Null while no chart is examined

formVars == <<formData, sqftError>>
optionVars == <<formOptions, formOptionsLoading, optionsInFlight>>
marketVars == <<marketData, marketLoading, marketError, marketInFlight,
                marketIssued, marketWriter>>
predictVars == <<loading, result, error, shapImgError, predictInFlight>>
vars == <<formData, formOptions, formOptionsLoading, loading, result, error,
          sqftError, marketData, marketLoading, marketError, shapImgError,
          optionsInFlight, marketInFlight, marketIssued, marketWriter,
          predictInFlight, highlight>>

\* new URLSearchParams({...}) of fetchMarketData
MarketParamsNoDefault(fd) ==
  [status |-> fd.Status, location |-> fd.Location, sqft |-> fd.Sqft,
   property_type |-> fd.PropertyType]
MarketParams(fd) ==
  [status |-> fd.Status, location |-> fd.Location, sqft |-> StrOr(fd.Sqft, "0"),
   property_type |-> fd.PropertyType]

InitialFormData == [Sqft |-> "", Location |-> "", PropertyType |-> "", Status |-> ""]

Init ==
  /\ formData = InitialFormData
  /\ formOptions = [locations |-> <<>>, property_types |-> <<>>, statuses |-> <<>>]
  /\ formOptionsLoading = TRUE
  /\ loading = FALSE
  /\ result = Null
  /\ error = Null
  /\ sqftError = Null
  /\ marketData = Null
  /\ marketError = Null
  /\ shapImgError = FALSE
  \* the two mount effects have run: both requests are out
  /\ optionsInFlight = 1
  /\ marketLoading = TRUE
  /\ marketInFlight = {[id |-> 1, params |-> MarketParams(InitialFormData)]}
  /\ marketIssued = 1
  /\ marketWriter = 0
  /\ predictInFlight = <<>>
  /\ highlight = Null


(***************************************************************************)
(* Option Loader: the continuation of fetchOptions.                        *)
(***************************************************************************)
\* setFormOptions: the body on res.ok, the built-in catalog in the catch
\* branch, nothing on a non-success response
OptionsAfter(o, fo) ==
  CASE o.kind = "ok" -> o.data
    [] o.kind = "network_error" -> FallbackOptions
    [] OTHER -> fo

\* setFormData(prev => ...): a default goes only into a field that is empty
FormDataAfterOptionsClobber(o, prev) ==
  CASE o.kind = "ok" ->
         [prev EXCEPT
            !.Location = FirstMatchOrFirst(o.data.locations,
                           {i \in 1..Len(o.data.locations) :
                              TestColombo3(o.data.locations[i])}),
            !.PropertyType = FirstMatchOrFirst(o.data.property_types,
                               {i \in 1..Len(o.data.property_types) :
                                  TestOffice(o.data.property_types[i])}),
            !.Status = FirstMatchOrFirst(o.data.statuses,
                         {i \in 1..Len(o.data.statuses) :
                            TestRent(o.data.statuses[i])})]
    [] o.kind = "network_error" ->
         [prev EXCEPT
            !.Location = FallbackLocation,
            !.PropertyType = FallbackPropertyType,
            !.Status = FallbackStatus]
    [] OTHER -> prev
FormDataAfterOptions(o, prev) ==
  CASE o.kind = "ok" ->
         [prev EXCEPT
            !.Location = StrOr(prev.Location,
                               FirstMatchOrFirst(o.data.locations,
                                 {i \in 1..Len(o.data.locations) :
                                    TestColombo3(o.data.locations[i])})),
            !.PropertyType = StrOr(prev.PropertyType,
                                   FirstMatchOrFirst(o.data.property_types,
                                 {i \in 1..Len(o.data.property_types) :
                                    TestOffice(o.data.property_types[i])})),
            !.Status = StrOr(prev.Status,
                             FirstMatchOrFirst(o.data.statuses,
                                 {i \in 1..Len(o.data.statuses) :
                                    TestRent(o.data.statuses[i])}))]
    [] o.kind = "network_error" ->
         [prev EXCEPT
            !.Location = StrOr(prev.Location, FallbackLocation),
            !.PropertyType = StrOr(prev.PropertyType, FallbackPropertyType),
            !.Status = StrOr(prev.Status, FallbackStatus)]
    [] OTHER -> prev

(***************************************************************************)
(* Market Sync Engine.                                                     *)
(***************************************************************************)
\* the synchronous head of fetchMarketData, up to the await of fetch
StartFetchMarketData(fd) ==
  /\ marketLoading' = TRUE
  /\ marketError' = Null
  /\ marketIssued' = marketIssued + 1
  /\ marketInFlight' =
       marketInFlight \cup {[id |-> marketIssued + 1, params |-> MarketParams(fd)]}
  /\ UNCHANGED <<marketData, marketWriter>>

\* the effect runs when one of its four dependencies changed in the render
MarketEffect(old, new) ==
  IF <<old.Status, old.Location, old.Sqft, old.PropertyType>>
       # <<new.Status, new.Location, new.Sqft, new.PropertyType>>
    THEN StartFetchMarketData(new)
    ELSE UNCHANGED marketVars

\* data.locations && data.locations.length > 0
HasLocations(data) == "locations" \in DOMAIN data /\ Len(data.locations) > 0

MarketDataAfterKeep(o, md) ==
  IF o.kind = "ok" /\ HasLocations(o.data) THEN Some(o.data) ELSE md
MarketDataAfter(o, md) ==
  IF o.kind = "ok"
    THEN IF HasLocations(o.data) THEN Some(o.data) ELSE Null
    ELSE md

MarketErrorAfter(o, me) ==
  CASE o.kind = "ok" -> IF HasLocations(o.data) THEN me ELSE Some(MsgNoMarketData)
    [] o.kind = "http_error" -> Some(MsgBackendError)
    [] OTHER -> Some(MsgBackendUnreachable)

\* the finally block
MarketLoadingAfterOkOnly(o) == o.kind # "ok"
MarketLoadingAfter(o) == FALSE

FetchOptionsDoneOfNoFinally(o) ==
    /\ optionsInFlight > 0
    /\ optionsInFlight' = optionsInFlight - 1
    /\ formOptions' = OptionsAfter(o, formOptions)
    /\ formData' = FormDataAfterOptions(o, formData)
    /\ formOptionsLoading' = (formOptionsLoading /\ o.kind # "ok")
    /\ MarketEffect(formData, formData')
    /\ UNCHANGED <<sqftError, predictVars, highlight>>
FetchOptionsDoneOf(o) ==
    /\ optionsInFlight > 0
    /\ optionsInFlight' = optionsInFlight - 1
    /\ formOptions' = OptionsAfter(o, formOptions)
    /\ formData' = FormDataAfterOptions(o, formData)
    /\ formOptionsLoading' = FALSE
    /\ MarketEffect(formData, formData')
    /\ UNCHANGED <<sqftError, predictVars, highlight>>

FetchOptionsDone == \E o \in OptionOutcomes : FetchOptionsDoneOf(o)

\* the continuation of fetchMarketData after the await, for request r
FetchMarketDataDoneOfSetsError(r, o) ==
    /\ r \in marketInFlight
    /\ marketInFlight' = marketInFlight \ {r}
    /\ marketData' = MarketDataAfter(o, marketData)
    /\ marketError' = MarketErrorAfter(o, marketError)
    /\ error' = IF o.kind = "ok" THEN error ELSE MarketErrorAfter(o, marketError)
    /\ marketLoading' = MarketLoadingAfter(o)
    /\ marketWriter' = r.id
    /\ UNCHANGED <<marketIssued, formVars, optionVars, loading, result, shapImgError,
                   predictInFlight, highlight>>
FetchMarketDataDoneOf(r, o) ==
    /\ r \in marketInFlight
    /\ marketInFlight' = marketInFlight \ {r}
    /\ marketData' = MarketDataAfter(o, marketData)
    /\ marketError' = MarketErrorAfter(o, marketError)
    /\ marketLoading' = MarketLoadingAfter(o)
    /\ marketWriter' = r.id
    /\ UNCHANGED <<marketIssued, formVars, optionVars, predictVars, highlight>>

FetchMarketDataDone ==
  \E r \in marketInFlight, o \in MarketOutcomes : FetchMarketDataDoneOf(r, o)

(***************************************************************************)
(* Form edits.                                                             *)
(***************************************************************************)
PickChoices(list) ==
  {list[i] : i \in {j \in 1..Len(list) : j <= MaxPick}}

\* what the controls let the user enter: any text in the Sqft field, an entry
\* of the list in a select that is not disabled
Editable(name, value) ==
  CASE name = "Sqft" -> value \in SqftTexts
    [] name = "Location" ->
         ~formOptionsLoading /\ value \in PickChoices(formOptions.locations)
    [] name = "PropertyType" ->
         ~formOptionsLoading /\ value \in PickChoices(formOptions.property_types)
    [] name = "Status" ->
         ~formOptionsLoading /\ value \in PickChoices(formOptions.statuses)

EditValues ==
  SqftTexts \cup PickChoices(formOptions.locations)
    \cup PickChoices(formOptions.property_types)
    \cup PickChoices(formOptions.statuses)

HandleChangeClearsError ==
  \E name \in {"Sqft", "Location", "PropertyType", "Status"}, value \in EditValues :
    /\ Editable(name, value)
    /\ marketIssued + (IF optionsInFlight > 0 THEN 1 ELSE 0) < MaxMarketReq
    /\ formData' = [formData EXCEPT ![name] = value]
    /\ sqftError' = IF name = "Sqft" THEN Null ELSE sqftError
    /\ error' = Null
    /\ MarketEffect(formData, formData')
    /\ UNCHANGED <<optionVars, loading, result, shapImgError, predictInFlight, highlight>>
HandleChange ==
  \E name \in {"Sqft", "Location", "PropertyType", "Status"}, value \in EditValues :
    /\ Editable(name, value)
    /\ marketIssued + (IF optionsInFlight > 0 THEN 1 ELSE 0) < MaxMarketReq
    /\ formData' = [formData EXCEPT ![name] = value]
    /\ sqftError' = IF name = "Sqft" THEN Null ELSE sqftError
    /\ MarketEffect(formData, formData')
    /\ UNCHANGED <<optionVars, predictVars, highlight>>

(***************************************************************************)
(* Prediction Submitter.                                                   *)
(***************************************************************************)
\* the three checks of handleSubmit, in their order: Null when all pass
SqftCheckNoMax(text) ==
  LET sqftNum == Number(text) IN
    IF text = "" THEN Some(MsgSqftMissing)
    ELSE IF isNaN(sqftNum) \/ NumLt(sqftNum, MinSqft) THEN Some(MsgSqftTooSmall)
    ELSE Null
SqftCheck(text) ==
  LET sqftNum == Number(text) IN
    IF text = "" THEN Some(MsgSqftMissing)
    ELSE IF isNaN(sqftNum) \/ NumLt(sqftNum, MinSqft) THEN Some(MsgSqftTooSmall)
    ELSE IF NumGt(sqftNum, MaxSqft) THEN Some(MsgSqftTooLarge)
    ELSE Null

\* the object given to JSON.stringify
PredictBodyStale(fd) ==
  [Sqft |-> Number(fd.Sqft).val, Location |-> fd.Location,
   PropertyType |-> fd.PropertyType, Status |-> FallbackStatus]
PredictBody(fd) ==
  [Sqft |-> Number(fd.Sqft).val, Location |-> fd.Location,
   PropertyType |-> fd.PropertyType, Status |-> fd.Status]

\* the submit button is disabled while loading, and with it the form's
\* implicit submission
SubmitEnabledAlways == TRUE
SubmitEnabled == ~loading

HandleSubmitKeepsResult ==
  /\ SubmitEnabled
  /\ UNCHANGED <<formData, optionVars, marketVars, highlight>>
  /\ error' = Null
  /\ LET rejected == SqftCheck(formData.Sqft) IN
       IF rejected # Null
         THEN /\ sqftError' = rejected
              /\ UNCHANGED <<loading, result, shapImgError, predictInFlight>>
         ELSE /\ sqftError' = Null
              /\ loading' = TRUE
              /\ UNCHANGED result
              /\ shapImgError' = FALSE
              /\ predictInFlight' = Append(predictInFlight, PredictBody(formData))
HandleSubmitNoShapReset ==
  /\ SubmitEnabled
  /\ UNCHANGED <<formData, optionVars, marketVars, highlight>>
  /\ error' = Null
  /\ LET rejected == SqftCheck(formData.Sqft) IN
       IF rejected # Null
         THEN /\ sqftError' = rejected
              /\ UNCHANGED <<loading, result, shapImgError, predictInFlight>>
         ELSE /\ sqftError' = Null
              /\ loading' = TRUE
              /\ result' = Null
              /\ UNCHANGED shapImgError
              /\ predictInFlight' = Append(predictInFlight, PredictBody(formData))
HandleSubmit ==
  /\ SubmitEnabled
  /\ UNCHANGED <<formData, optionVars, marketVars, highlight>>
  /\ error' = Null
  /\ LET rejected == SqftCheck(formData.Sqft) IN
       IF rejected # Null
         THEN /\ sqftError' = rejected
              /\ UNCHANGED <<loading, result, shapImgError, predictInFlight>>
         ELSE /\ sqftError' = Null
              /\ loading' = TRUE
              /\ result' = Null
              /\ shapImgError' = FALSE
              /\ predictInFlight' = Append(predictInFlight, PredictBody(formData))

\* err.message || 'An unexpected error occurred.'
PredictErrorNoDefault(o) ==
  IF o.kind = "http_error" THEN MsgPredictFailed ELSE o.message
PredictError(o) ==
  IF o.kind = "http_error" THEN MsgPredictFailed ELSE StrOr(o.message, MsgUnexpected)

PredictDoneOfKeepsLoading(o) ==
    /\ predictInFlight # <<>>
    /\ predictInFlight' = Tail(predictInFlight)
    /\ IF o.kind = "ok"
         THEN result' = Some(o.data) /\ UNCHANGED error
         ELSE error' = Some(PredictError(o)) /\ UNCHANGED result
    /\ loading' = (o.kind # "ok")
    /\ UNCHANGED <<shapImgError, formVars, optionVars, marketVars, highlight>>
PredictDoneOf(o) ==
    /\ predictInFlight # <<>>
    /\ predictInFlight' = Tail(predictInFlight)
    /\ IF o.kind = "ok"
         THEN result' = Some(o.data) /\ UNCHANGED error
         ELSE error' = Some(PredictError(o)) /\ UNCHANGED result
    /\ loading' = FALSE
    /\ UNCHANGED <<shapImgError, formVars, optionVars, marketVars, highlight>>

PredictDone == \E o \in PredictOutcomes : PredictDoneOf(o)

\* onError of the explanation image, which is rendered only for a result
\* with an image payload and while the flag is clear
ShapImgOnError ==
  /\ result # Null
  /\ ~shapImgError
  /\ result[1].shap_image_base64 # ""
  /\ shapImgError' = TRUE
  /\ UNCHANGED <<loading, result, error, predictInFlight, formVars, optionVars,
                 marketVars, highlight>>

Next ==
  \/ FetchOptionsDone
  \/ FetchMarketDataDone
  \/ HandleChange
  \/ HandleSubmit
  \/ PredictDone
  \/ ShapImgOnError

Spec == Init /\ [][Next]_vars

\* The development build: StrictMode has run both mount effects twice, so two
\* /form-options and two /market-insights requests (numbered 0 and 1) are out.
InitStrict ==
  /\ formData = InitialFormData
  /\ formOptions = [locations |-> <<>>, property_types |-> <<>>, statuses |-> <<>>]
  /\ formOptionsLoading = TRUE
  /\ loading = FALSE
  /\ result = Null
  /\ error = Null
  /\ sqftError = Null
  /\ marketData = Null
  /\ marketError = Null
  /\ shapImgError = FALSE
  /\ optionsInFlight = 2
  /\ marketLoading = TRUE
  /\ marketInFlight = {[id |-> 0, params |-> MarketParams(InitialFormData)],
                       [id |-> 1, params |-> MarketParams(InitialFormData)]}
  /\ marketIssued = 1
  /\ marketWriter = -1
  /\ predictInFlight = <<>>
  /\ highlight = Null

\* the option loads and the edits around them, in a session without submission
NextStrict ==
  \/ FetchOptionsDone
  \/ FetchMarketDataDone
  \/ HandleChange

SpecStrict == InitStrict /\ [][NextStrict]_vars

(***************************************************************************)
(* The City Normalizer on its own: the chart compares a bar's label loc    *)
(* with marketData.selected_city after normalizeCity.  The labels are all  *)
(* texts over CityAlphabet up to MaxCityLen and the district labels.       *)
(***************************************************************************)
CityAlphabet == {" ", "0", "3", "C"}
RECURSIVE TextsUpTo(_)
TextsUpTo(n) ==
  IF n = 0 THEN {<<>>}
  ELSE LET shorter == TextsUpTo(n - 1) IN
    shorter \cup {Append(t, c) : t \in shorter, c \in CityAlphabet}
DistrictLabels == {Chars("Colombo 03"), Chars("Colombo 3"), Chars("Colombo 7")}
CityLabels == TextsUpTo(MaxCityLen) \cup DistrictLabels

InitNormalize ==
  /\ formData = InitialFormData
  /\ formOptions = [locations |-> <<>>, property_types |-> <<>>, statuses |-> <<>>]
  /\ formOptionsLoading = TRUE
  /\ loading = FALSE
  /\ result = Null
  /\ error = Null
  /\ sqftError = Null
  /\ marketData = Null
  /\ marketError = Null
  /\ shapImgError = FALSE
  /\ optionsInFlight = 1
  /\ marketLoading = TRUE
  /\ marketInFlight = {[id |-> 1, params |-> MarketParams(InitialFormData)]}
  /\ marketIssued = 1
  /\ marketWriter = 0
  /\ predictInFlight = <<>>
  /\ \E l \in CityLabels, c \in CityLabels :
       highlight = Some([loc |-> l, city |-> c, once |-> Null, twice |-> Null,
                         same |-> Null, sameRev |-> Null, isSelected |-> Null])

\* normalizeCity(loc), normalizeCity(marketData.selected_city)
NormalizeCity ==
  /\ highlight # Null /\ highlight[1].once = Null
  /\ highlight' = Some([highlight[1] EXCEPT
        !.once = Some(<<normalizeCity(highlight[1].loc), normalizeCity(highlight[1].city)>>)])
  /\ UNCHANGED <<formVars, optionVars, marketVars, predictVars>>

\* the normalizer run on its own output
NormalizeCityAgain ==
  /\ highlight # Null /\ highlight[1].once # Null /\ highlight[1].twice = Null
  /\ highlight' = Some([highlight[1] EXCEPT
        !.twice = Some(<<normalizeCity(highlight[1].once[1][1]),
                         normalizeCity(highlight[1].once[1][2])>>)])
  /\ UNCHANGED <<formVars, optionVars, marketVars, predictVars>>

\* isSelected = selected_city ? normalizeCity(loc) === normalizeCity(selected_city) : false
IsSelected ==
  /\ highlight # Null /\ highlight[1].once # Null /\ highlight[1].isSelected = Null
  /\ LET h == highlight[1]
         eq == h.once[1][1] = h.once[1][2]
         eqRev == h.once[1][2] = h.once[1][1]
     IN highlight' = Some([h EXCEPT !.same = Some(eq), !.sameRev = Some(eqRev),
                             !.isSelected = Some(IF h.city # <<>> THEN eq ELSE FALSE)])
  /\ UNCHANGED <<formVars, optionVars, marketVars, predictVars>>

NextNormalize ==
  \/ NormalizeCity
  \/ NormalizeCityAgain
  \/ IsSelected

SpecNormalize == InitNormalize /\ [][NextNormalize]_vars


(***************************************************************************)
(* Properties.                                                             *)
(***************************************************************************)
ResolvedIds == (1..marketIssued) \ {q.id : q \in marketInFlight}
MarketFailures == {[kind |-> "http_error"], [kind |-> "network_error"]}
MarketNoDataOutcomes == {o \in MarketOutcomes : o.kind = "ok" /\ ~HasLocations(o.data)}
PredictFailures == {o \in PredictOutcomes : o.kind # "ok"}

\* C1: a market-insights response that arrives after the response of a request
\* issued later than its own changes neither the stored snapshot nor the
\* market error.
C1_StaleResponseIgnored ==
  [][\A r \in marketInFlight, o \in MarketOutcomes :
       (FetchMarketDataDoneOf(r, o) /\ \E k \in ResolvedIds : k > r.id)
         => (marketData' = marketData /\ marketError' = marketError)]_vars

\* C2: once the option load has completed, whatever its outcome, the three
\* option lists are non-empty.
C2_CatalogNeverEmpty ==
  ~formOptionsLoading =>
    /\ Len(formOptions.locations) > 0
    /\ Len(formOptions.property_types) > 0
    /\ Len(formOptions.statuses) > 0

\* C3: a market-insights request that ends in a transport failure or in a
\* non-success response leaves no stored snapshot and a backend-error message.
C3_FailureClearsSnapshot ==
  [][\A r \in marketInFlight, o \in MarketFailures :
       FetchMarketDataDoneOf(r, o)
         => /\ marketData' = Null
            /\ marketError' \in {Some(MsgBackendError), Some(MsgBackendUnreachable)}]_vars

\* the square footage texts the validator is to reject: empty, not a number,
\* below the minimum, above the maximum
InvalidSqft(text) ==
  LET n == Number(text) IN
    \/ text = ""
    \/ isNaN(n)
    \/ n.val < MinSqft
    \/ n.val > MaxSqft

\* C4: a submission with an invalid square footage issues no request, keeps
\* the stored result and the loading flag, sets the field error and leaves
\* the top-level error unset.
C4_InvalidSubmitIsLocal ==
  [][(HandleSubmit /\ InvalidSqft(formData.Sqft))
       => /\ predictInFlight' = predictInFlight
          /\ result' = result
          /\ loading' = loading
          /\ sqftError' # Null
          /\ error' = Null]_vars

C4_Witness ==
  /\ sqftError = Some(MsgSqftTooLarge)
  /\ result # Null
  /\ predictInFlight = <<>>

\* C5: a submission with a valid square footage clears the top-level error and
\* the result, sets loading, and issues exactly one request, whose body
\* carries the number and the three fields of the form at that moment.
C5_ValidSubmitIssuesOneRequest ==
  [][(HandleSubmit /\ ~InvalidSqft(formData.Sqft))
       => /\ error' = Null
          /\ result' = Null
          /\ loading'
          /\ predictInFlight' =
               predictInFlight \o
                 <<[Sqft |-> Number(formData.Sqft).val, Location |-> formData.Location,
                    PropertyType |-> formData.PropertyType,
                    Status |-> formData.Status]>>]_vars

C5_Witness ==
  /\ loading
  /\ result = Null
  /\ error = Null
  /\ Len(predictInFlight) = 1
  /\ predictInFlight[1].Sqft = MaxSqft
  /\ predictInFlight[1].Status = "Sale"

\* C6: when a prediction request fails, a non-empty top-level error is stored
\* and the result is null afterwards.
C6_FailureStoresErrorOnly ==
  [][\A o \in PredictFailures :
       PredictDoneOf(o) => /\ error' # Null
                           /\ error'[1] # ""
                           /\ result' = Null]_vars

C6_Witness ==
  /\ error = Some(MsgUnexpected)
  /\ result = Null
  /\ ~loading

\* C7: the field error names the rule that rejected the text: missing for the
\* empty text, a reason of its own for a text that is not a number, below
\* minimum under 50, too large over 1,000,000; a text in 50..1,000,000 is
\* never rejected.
C7_ReasonPerRule ==
  sqftError # Null =>
    LET t == formData.Sqft
        n == Number(t)
    IN /\ t = "" => sqftError[1] = MsgSqftMissing
       /\ (t # "" /\ isNaN(n)) =>
            sqftError[1] \notin {MsgSqftMissing, MsgSqftTooSmall, MsgSqftTooLarge}
       /\ (t # "" /\ ~isNaN(n) /\ n.val < MinSqft) => sqftError[1] = MsgSqftTooSmall
       /\ (t # "" /\ ~isNaN(n) /\ n.val > MaxSqft) => sqftError[1] = MsgSqftTooLarge
       /\ ~(t # "" /\ ~isNaN(n) /\ n.val >= MinSqft /\ n.val <= MaxSqft)

\* C8: a market-insights response that succeeds without locations clears the
\* stored snapshot and reports the no-data message, which is neither of the
\* backend-error messages.
C8_NoDataClearsSnapshot ==
  [][\A r \in marketInFlight, o \in MarketNoDataOutcomes :
       FetchMarketDataDoneOf(r, o)
         => /\ marketData' = Null
            /\ marketError' = Some(MsgNoMarketData)
            /\ marketError'[1] \notin {MsgBackendError, MsgBackendUnreachable}]_vars

C8_Witness ==
  /\ marketData = Null
  /\ marketError = Some(MsgNoMarketData)
  /\ marketWriter = 2
  /\ marketInFlight = {}

\* C9: every change of one of the four form fields starts one market-insights
\* request: loading is set, the market error cleared, and the query carries
\* the new field values, with sqft "0" for an empty Sqft field.
C9_ChangeStartsRequest ==
  [][formData' # formData
       => /\ marketLoading'
          /\ marketError' = Null
          /\ marketIssued' = marketIssued + 1
          /\ marketInFlight' = marketInFlight \cup
               {[id |-> marketIssued + 1,
                 params |-> [status |-> formData'.Status,
                             location |-> formData'.Location,
                             sqft |-> IF formData'.Sqft = "" THEN "0"
                                      ELSE formData'.Sqft,
                             property_type |-> formData'.PropertyType]]}]_vars

C9_Witness ==
  \E r \in marketInFlight :
    /\ r.id = 3
    /\ r.params.sqft = "0"
    /\ r.params.location = "Colombo 01"
    /\ formData.Sqft = ""
    /\ marketLoading

\* C10: the completion of a market-insights request clears the market loading
\* flag, and the flag is clear whenever no request is outstanding.
C10_LoadingClearedOnCompletion ==
  /\ [](marketInFlight = {} => ~marketLoading)
  /\ [][(marketInFlight' # marketInFlight /\ marketInFlight' \subseteq marketInFlight)
          => ~marketLoading']_vars

C10_Witness ==
  /\ marketInFlight = {}
  /\ ~marketLoading
  /\ marketWriter = marketIssued
  /\ marketError = Some(MsgBackendUnreachable)


\* C11: a prediction request is added only by a submission, and no field edit,
\* option-load completion, market-insights completion or image failure
\* changes the outstanding requests, result, error or loading.
C11_OnlySubmitPredicts ==
  [][/\ Len(predictInFlight') > Len(predictInFlight) => HandleSubmit
     \* a step that edits a field, completes the option load, starts or
     \* completes a market request, or raises the image flag
     /\ (\/ formData' # formData
         \/ optionVars' # optionVars
         \/ marketVars' # marketVars
         \/ (~shapImgError /\ shapImgError'))
          => UNCHANGED <<predictInFlight, result, error, loading>>
     /\ <<predictInFlight, result, error, loading>>' # <<predictInFlight, result, error, loading>>
          => (HandleSubmit \/ PredictDone)]_vars

C11_Witness ==
  /\ result # Null
  /\ formData.Sqft = "49"
  /\ marketWriter = 3
  /\ ~formOptionsLoading
  /\ ~loading


CategoricalFields == {"Location", "PropertyType", "Status"}

\* C12: an option-load completion writes a default only into an empty
\* Location, PropertyType or Status field: a field that holds a value keeps
\* it, Sqft is not changed, and applying the same defaults to the outcome
\* again changes nothing.
C12_DefaultsOnlyIntoEmptyFields ==
  [][optionsInFlight' < optionsInFlight
       => /\ formData'.Sqft = formData.Sqft
          /\ \A f \in CategoricalFields :
               formData[f] # "" => formData'[f] = formData[f]
          /\ \A o \in OptionOutcomes :
               FetchOptionsDoneOf(o) => FormDataAfterOptions(o, formData') = formData']_vars

\* the second load failed in transport after the first had applied the
\* backend's defaults and the user had typed a size
C12_Witness ==
  /\ optionsInFlight = 0
  /\ formOptions = FallbackOptions
  /\ formData.Location = "Colombo 3"
  /\ formData.Status = "For Rent"
  /\ formData.Sqft = "50"


\* C13: a step that raises the image failure flag changes nothing else, in
\* particular not result, error or loading; and in the state where a new
\* result has just been stored the flag is false.
C13_ImageFlagIsSeparate ==
  [][/\ (~shapImgError /\ shapImgError')
          => UNCHANGED <<result, error, loading, predictInFlight, formVars,
                         optionVars, marketVars>>
     /\ (result' # Null /\ result' # result) => ~shapImgError']_vars

C13_Witness ==
  /\ shapImgError
  /\ result # Null
  /\ result[1].predicted_price = 350000
  /\ error = Null
  /\ ~loading


\* C14: a market-insights completion leaves the form, the option catalog and
\* the prediction state unchanged; a prediction completion leaves the form,
\* the catalog, the image flag and the market state unchanged; an option-load
\* completion leaves Sqft, the field error, the prediction state and the
\* stored snapshot unchanged, writes no categorical field that holds a value,
\* and touches the market flags only through the request that a changed
\* field starts.
C14_DisjointSlices ==
  [][/\ (marketInFlight' # marketInFlight /\ marketInFlight' \subseteq marketInFlight)
          => UNCHANGED <<formData, sqftError, formOptions, formOptionsLoading,
                         loading, result, error, shapImgError>>
     /\ Len(predictInFlight') < Len(predictInFlight)
          => UNCHANGED <<formData, sqftError, formOptions, formOptionsLoading,
                         marketData, marketLoading, marketError, shapImgError>>
     /\ optionsInFlight' < optionsInFlight
          => /\ UNCHANGED <<sqftError, loading, result, error, shapImgError,
                            marketData>>
             /\ formData'.Sqft = formData.Sqft
             /\ \A f \in CategoricalFields :
                  formData[f] # "" => formData'[f] = formData[f]
             /\ formData' = formData => UNCHANGED <<marketLoading, marketError>>]_vars

C14_Witness ==
  /\ result # Null
  /\ marketData # Null
  /\ ~formOptionsLoading
  /\ formData.Location # ""
  /\ marketInFlight = {}
  /\ predictInFlight = <<>>


\* C15: the completion of a prediction request, failed or not, clears
\* loading, and loading is false whenever no request is outstanding; with
\* loading false the submit control is enabled, so a new submission can start.
C15_SubmitLoadingCleared ==
  /\ [](predictInFlight = <<>> => ~loading)
  /\ [][Len(predictInFlight') < Len(predictInFlight) => ~loading']_vars

C15_Witness ==
  /\ error = Some(MsgPredictFailed)
  /\ ~loading
  /\ predictInFlight = <<>>
  /\ result = Null


\* the default the success rule picks from a list: the first entry that passes
\* the test, else the first entry
RuleLocation(list) ==
  FirstMatchOrFirst(list, {i \in 1..Len(list) : TestColombo3(list[i])})
RulePropertyType(list) ==
  FirstMatchOrFirst(list, {i \in 1..Len(list) : TestOffice(list[i])})
RuleStatus(list) ==
  FirstMatchOrFirst(list, {i \in 1..Len(list) : TestRent(list[i])})

\* C16: when the /form-options request fails in transport, the catalog becomes
\* the built-in list and each empty field receives the entry of that list
\* which the success rule picks: first match of the field's pattern, else
\* the first entry.
C16_FallbackDefaultsByRule ==
  [][(optionsInFlight' < optionsInFlight
        /\ FetchOptionsDoneOf([kind |-> "network_error"]))
       => /\ formOptions' = FallbackOptions
          /\ formData.Location = ""
               => formData'.Location = RuleLocation(FallbackOptions.locations)
          /\ formData.PropertyType = ""
               => formData'.PropertyType = RulePropertyType(FallbackOptions.property_types)
          /\ formData.Status = ""
               => formData'.Status = RuleStatus(FallbackOptions.statuses)]_vars


ZeroPadded(a, b) ==
  LET n == Len(b) IN
    /\ n >= 1
    /\ IsDigit(b[n])
    /\ (n = 1 \/ ~IsWordChar(b[n - 1]))
    /\ a = SubSeq(b, 1, n - 1) \o <<"0", b[n]>>

\* C18: normalizeCity applied to its own output gives that output again; the
\* equality of normalized labels is the same in either order; a label and its
\* zero-padded form ("Colombo 03", "Colombo 3") compare equal and labels with
\* different numbers ("Colombo 03", "Colombo 7") do not.
C18_NormalizeIdempotentSymmetric ==
  highlight # Null =>
    LET h == highlight[1] IN
      /\ h.twice # Null => h.twice = h.once
      /\ h.same # Null =>
           /\ h.same = h.sameRev
           /\ (ZeroPadded(h.loc, h.city) \/ ZeroPadded(h.city, h.loc)) => h.same[1]
           /\ (h.loc = Chars("Colombo 03") /\ h.city = Chars("Colombo 7")) => ~h.same[1]
           /\ (h.loc = <<"0", "3">> /\ h.city = <<"3", "0">>) => ~h.same[1]

\* "Colombo 03" against "Colombo 3": normalized twice, compared, highlighted
C18_Witness ==
  /\ highlight # Null
  /\ highlight[1].loc = Chars("Colombo 03")
  /\ highlight[1].city = Chars("Colombo 3")
  /\ highlight[1].twice = Some(<<Chars("colombo 3"), Chars("colombo 3")>>)
  /\ highlight[1].isSelected = Some(TRUE)


MarketSuccesses == {o \in MarketOutcomes : o.kind = "ok" /\ HasLocations(o.data)}

\* C19: a market-insights response that succeeds with at least one location
\* makes the stored snapshot exactly that response and leaves the market
\* error unset.
C19_SuccessReplacesSnapshot ==
  [][\A r \in marketInFlight, o \in MarketSuccesses :
       FetchMarketDataDoneOf(r, o)
         => (marketData' = Some(o.data) /\ marketError' = Null)]_vars

\* C20: the market loading flag is true whenever a market-insights request is
\* in flight.
C20_LoadingWhileInFlight ==
  marketInFlight # {} => marketLoading


\* C21: at most one /predict request is in flight, and one is in flight
\* whenever loading is true; a request is issued only from a state in which
\* loading is false and none is in flight; the response that sets result or
\* error leaves no other request behind it.
C21_OnePredictInFlight ==
  /\ [](Len(predictInFlight) <= 1 /\ (loading => Len(predictInFlight) = 1))
  /\ [][/\ Len(predictInFlight') > Len(predictInFlight)
             => (~loading /\ predictInFlight = <<>>)
        /\ Len(predictInFlight') < Len(predictInFlight)
             => predictInFlight' = <<>>]_vars

\* a request for 50 sqft is in flight and the user has already typed another
\* size that cannot be submitted yet
C21_Witness ==
  /\ loading
  /\ Len(predictInFlight) = 1
  /\ predictInFlight[1].Sqft = 50
  /\ formData.Sqft = "1000000"


\* C22: in every reachable state result and error are not both set, and
\* result is null while a prediction request is in flight.
C22_ResultErrorExclusive ==
  /\ ~(result # Null /\ error # Null)
  /\ (loading \/ predictInFlight # <<>>) => result = Null

\* a submission failed without a message of its own: the error is stored and
\* no result is
C22_Witness ==
  /\ result = Null
  /\ error = Some(MsgUnexpected)
  /\ formData.Sqft = "1000000"
  /\ predictInFlight = <<>>
  /\ ~loading


\* formData.Status === 'Rent' ? 'Monthly Rent' : 'Sale Value'
ResultLabel(status) == IF status = "Rent" THEN "Monthly Rent" ELSE "Sale Value"

\* C23: the label shown with a stored result is the label of the Status sent
\* in the request that produced it: it is so when the response is stored, and
\* it does not change for as long as that result stays stored.
C23_LabelFollowsRequest ==
  [][/\ (Len(predictInFlight') < Len(predictInFlight) /\ result' # Null)
          => ResultLabel(formData'.Status) = ResultLabel(Head(predictInFlight).Status)
     /\ (result # Null /\ result' = result)
          => ResultLabel(formData'.Status) = ResultLabel(formData.Status)]_vars

====
